---------------------------- MODULE Spec2Model ----------------------------
(***************************************************************************)
(* State-machine model of the GPU resource layer: Mesh sub-resource        *)
(* upload/readback (CmMesh.cpp), the GPU parameter store (BsGpuParams.h)   *)
(* and the pipeline-state accessors (BsGpuPipelineState.h).                *)
(*                                                                         *)
(* C++ indices are 0-based; sequences here are 1-based, so element i of a  *)
(* C++ container is element i+1 of the sequence that models it.            *)
(***************************************************************************)
EXTENDS Integers, Sequences, FiniteSets

VARIABLES
    mSubMeshes,     \* Mesh::mSubMeshes: sequence of SubMesh
    mIndexData,     \* Mesh::mIndexData: Null or the IndexData block
    mVertexData,    \* Mesh::mVertexData: Null or the VertexData block
    lifecycle,      \* "constructed" | "initialized" | "destroyed"
    buffer,         \* the caller's container from allocateSubresourceBuffer
    written,        \* the mesh data of the last completed writeSubresource
    lastCall,       \* the call that produced the current state
    result,         \* how that call ended ("ok" or the condition raised)
    ret,            \* what that call returned (Null when nothing)
    mParamDesc,     \* GpuParams::mParamDesc.params: name -> descriptor
    mInternalData,  \* per store: the GpuParamsInternalData it owns
    handles,        \* the caller's TGpuDataParam<T> handle slots
    lastSet,        \* per store and name: the last value written by a handle
    pipeline,       \* Null or the constructed pipeline state object
    ctorArg         \* what the pipeline state's constructor was given

meshVars == <<mSubMeshes, mIndexData, mVertexData, lifecycle, buffer, written>>
callVars == <<lastCall, result, ret>>
paramVars == <<mParamDesc, mInternalData, handles, lastSet>>
pipelineVars == <<pipeline, ctorArg>>
vars == <<mSubMeshes, mIndexData, mVertexData, lifecycle, buffer, written,
          lastCall, result, ret, mParamDesc, mInternalData, handles, lastSet,
          pipeline, ctorArg>>

\* A null pointer / empty shared_ptr.
Null == [isNull |-> TRUE]

(***************************************************************************)
(* Bounds of the model.                                                    *)
(***************************************************************************)
MaxSubMeshes == 2      \* source mesh data has 0..MaxSubMeshes submeshes
MaxIndices == 1        \* a source submesh has no or MaxIndices indices
MaxStreamIdx == 1      \* vertex streams 0..MaxStreamIdx may be populated
MaxVertices == 1       \* source mesh data has 1..MaxVertices vertices
MaxHandles == 2        \* the caller keeps handle slots 1..MaxHandles
MaxValue == 1          \* parameter values written are 0..MaxValue
MaxPrograms == 1       \* GPU program objects 1..MaxPrograms exist
MaxStateObjects == 1   \* fixed-function state objects 1..MaxStateObjects exist

\* UINT32 values, kept as two 16-bit halves so that the full width is
\* represented: conversion of an int wraps modulo 2^32.
HalfWord == 65536
ToUINT32(n) == [hi |-> (n \div HalfWord) % HalfWord, lo |-> n % HalfWord]
U32Less(a, b) == a.hi < b.hi \/ (a.hi = b.hi /\ a.lo < b.lo)

\* A byte of memory that was allocated and never written: its value is
\* indeterminate, so it is equal to no byte of any source.
Indeterminate == 0 - 1

RECURSIVE SumTo(_, _)
\* f[1] + ... + f[n]
SumTo(f, n) == IF n = 0 THEN 0 ELSE f[n] + SumTo(f, n - 1)

(***************************************************************************)
(* Threads.  THROW_IF_NOT_CORE_THREAD raises when the calling thread is    *)
(* not the core (render) thread.                                           *)
(***************************************************************************)
Threads == {"core", "sim"}
IsCoreThread(t) == t = "core"

(***************************************************************************)
(* Index buffers, vertex buffers and vertex elements (device backend).     *)
(***************************************************************************)
IndexTypes == {"IT_16BIT", "IT_32BIT"}
IndexSize(type) == IF type = "IT_16BIT" THEN 2 ELSE 4

VertexElementTypeSize(type) ==
    CASE type = "VET_FLOAT1" -> 4
      [] type = "VET_FLOAT2" -> 8
      [] type = "VET_FLOAT3" -> 12
      [] type = "VET_COLOR" -> 4

Uninitialized(n) == [i \in 1..n |-> Indeterminate]

createIndexBuffer(type, numIndexes) ==
    [type |-> type, numIndexes |-> numIndexes, locked |-> FALSE,
     relocked |-> FALSE, data |-> Uninitialized(numIndexes * IndexSize(type))]

createVertexBuffer(vertexSize, numVertices) ==
    [vertexSize |-> vertexSize, numVertices |-> numVertices, locked |-> FALSE,
     relocked |-> FALSE, data |-> Uninitialized(vertexSize * numVertices)]

\* A buffer is locked or not; relocked records that it was locked while it
\* was already locked.
lock(buf) == [buf EXCEPT !.locked = TRUE, !.relocked = @ \/ buf.locked]
unlock(buf) == [buf EXCEPT !.locked = FALSE]

\* memcpy(dest + destOff, src + srcOff, n) on byte sequences.  Bytes read
\* past the end of src are indeterminate; MemcpyInBounds says that the copy
\* stays inside both blocks.
Memcpy(dest, destOff, src, srcOff, n) ==
    [i \in 1..Len(dest) |->
        IF destOff < i /\ i <= destOff + n
        THEN IF srcOff + (i - destOff) <= Len(src)
             THEN src[srcOff + (i - destOff)]
             ELSE Indeterminate
        ELSE dest[i]]

MemcpyInBounds(dest, destOff, src, srcOff, n) ==
    destOff + n <= Len(dest) /\ srcOff + n <= Len(src)

(***************************************************************************)
(* MeshData: the API-agnostic container.  One data block holds the indices *)
(* of all submeshes, submesh after submesh, then the vertex streams in     *)
(* ascending stream order.                                                 *)
(***************************************************************************)
getNumSubmeshes(md) == Len(md.subMeshes)
getNumIndices(md, i) == md.subMeshes[i + 1].numIndices
getDrawOp(md, i) == md.subMeshes[i + 1].drawOp
getNumIndicesTotal(md) ==
    SumTo([j \in 1..Len(md.subMeshes) |-> md.subMeshes[j].numIndices],
          Len(md.subMeshes))
getIndexBufferOffset(md, i) ==
    SumTo([j \in 1..Len(md.subMeshes) |-> md.subMeshes[j].numIndices], i)
getIndexType(md) == md.indexType
getIndexElementSize(md) == IndexSize(md.indexType)
getIndexBufferSize(md) == getNumIndicesTotal(md) * getIndexElementSize(md)
getNumVertices(md) == md.numVertices

StreamsOf(elems) == {elems[j].streamIdx : j \in 1..Len(elems)}
MaxOf(S) == IF S = {} THEN 0 ELSE CHOOSE m \in S : \A x \in S : x <= m
getMaxStreamIdx(md) == MaxOf(StreamsOf(md.vertElems))
hasStream(md, s) == s \in StreamsOf(md.vertElems)

\* Size of one vertex of stream s under a list of elements.
StreamVertexSize(elems, s) ==
    SumTo([j \in 1..Len(elems) |->
              IF elems[j].streamIdx = s
              THEN VertexElementTypeSize(elems[j].type) ELSE 0],
          Len(elems))

getStreamSize(md, s) == StreamVertexSize(md.vertElems, s) * md.numVertices
getStreamOffset(md, s) ==
    getIndexBufferSize(md)
    + SumTo([j \in 1..s |-> getStreamSize(md, j - 1)], s)
getSize(md) == getStreamOffset(md, getMaxStreamIdx(md) + 1)

\* MeshData::createDeclaration: the elements with their offset in the stream.
createDeclaration(md) ==
    [j \in 1..Len(md.vertElems) |->
        [streamIdx |-> md.vertElems[j].streamIdx,
         offset |-> SumTo([k \in 1..Len(md.vertElems) |->
                              IF md.vertElems[k].streamIdx
                                    = md.vertElems[j].streamIdx
                              THEN VertexElementTypeSize(md.vertElems[k].type)
                              ELSE 0], j - 1),
         type |-> md.vertElems[j].type,
         semantic |-> md.vertElems[j].semantic,
         semanticIdx |-> md.vertElems[j].semanticIdx]]

\* VertexDeclaration::getVertexSize(stream)
getVertexSize(decl, s) == StreamVertexSize(decl, s)

\* MeshData(numVertices, indexType); beginDesc(); addSubMesh.. addVertElem..
\* endDesc(): the described container with its data block allocated and
\* not yet written.
NewMeshData(numVertices, indexType, subMeshes, vertElems) ==
    LET md == [typeId |-> "TID_MeshData", numVertices |-> numVertices,
               indexType |-> indexType, subMeshes |-> subMeshes,
               vertElems |-> vertElems, data |-> <<>>]
    IN [md EXCEPT !.data = Uninitialized(getSize(md))]

(***************************************************************************)
(* Containers handed to writeSubresource.  Every byte of a source data     *)
(* block is distinct from its neighbours, and the two variants of a shape  *)
(* share no byte, so a misplaced or stale byte shows.                      *)
(***************************************************************************)
DrawOps == <<"DOT_TRIANGLE_LIST", "DOT_LINE_LIST">>
Variants == {0, 1}

\* Stream 0 carries a position and a colour (12 bytes a vertex), every
\* other stream one texture coordinate set (8 bytes a vertex).
StreamElems(s) ==
    IF s = 0
    THEN << [type |-> "VET_FLOAT2", semantic |-> "VES_POSITION",
             semanticIdx |-> 0, streamIdx |-> 0],
            [type |-> "VET_COLOR", semantic |-> "VES_COLOR",
             semanticIdx |-> 0, streamIdx |-> 0] >>
    ELSE << [type |-> "VET_FLOAT2", semantic |-> "VES_TEXCOORD",
             semanticIdx |-> s - 1, streamIdx |-> s] >>

RECURSIVE ElemsOfStreams(_, _)
\* The elements of the streams of S that are >= s, in stream order.
ElemsOfStreams(S, s) ==
    IF s > MaxStreamIdx THEN <<>>
    ELSE (IF s \in S THEN StreamElems(s) ELSE <<>>) \o ElemsOfStreams(S, s + 1)

MakeMeshData(numVertices, indexType, counts, S, variant) ==
    LET md == NewMeshData(numVertices, indexType,
                  [i \in 1..Len(counts) |->
                      [numIndices |-> counts[i],
                       drawOp |-> DrawOps[((i - 1) % 2) + 1]]],
                  ElemsOfStreams(S, 0))
    IN [md EXCEPT !.data = [p \in 1..getSize(md) |-> p + 100 * variant]]

SubMeshCounts == UNION {[1..n -> {0, MaxIndices}] : n \in 0..MaxSubMeshes}

\* Every submesh layout and index type over one vertex in stream 0, and
\* every vertex count and set of populated streams over one submesh.
MeshDataInputs ==
    {MakeMeshData(1, it, c, {0}, v) :
        it \in IndexTypes, c \in SubMeshCounts, v \in Variants}
    \cup
    {MakeMeshData(nv, "IT_16BIT", <<MaxIndices>>, S, v) :
        nv \in 1..MaxVertices, S \in SUBSET (0..MaxStreamIdx), v \in Variants}

\* A GpuResourceData that is not mesh data.
PixelDataInput == [typeId |-> "TID_PixelData"]

\* MeshManager::getDummyMeshData: one vertex with a position, one submesh
\* of three indices, all zero.
DummyMeshData ==
    LET md == NewMeshData(1, "IT_32BIT",
                  << [numIndices |-> 3, drawOp |-> "DOT_TRIANGLE_LIST"] >>,
                  << [type |-> "VET_FLOAT3", semantic |-> "VES_POSITION",
                      semanticIdx |-> 0, streamIdx |-> 0] >>)
    IN [md EXCEPT !.data = [p \in 1..getSize(md) |-> 0]]

(***************************************************************************)
(* Mesh::writeSubresource                                                  *)
(***************************************************************************)
RECURSIVE PushSubMeshes_KeepEmpty(_, _, _)
PushSubMeshes_KeepEmpty(md, i, acc) ==
    IF i >= getNumSubmeshes(md) THEN acc
    ELSE PushSubMeshes_KeepEmpty(md, i + 1,
            Append(acc, [indexOffset |-> getIndexBufferOffset(md, i),
                         indexCount |-> getNumIndices(md, i),
                         drawOp |-> getDrawOp(md, i)]))

RECURSIVE PushSubMeshes_ByteOffset(_, _, _)
PushSubMeshes_ByteOffset(md, i, acc) ==
    IF i >= getNumSubmeshes(md) THEN acc
    ELSE LET numIndices == getNumIndices(md, i)
         IN PushSubMeshes_ByteOffset(md, i + 1,
                IF numIndices > 0
                THEN Append(acc, [indexOffset |-> getIndexBufferOffset(md, i)
                                                  * getIndexElementSize(md),
                                  indexCount |-> numIndices,
                                  drawOp |-> getDrawOp(md, i)])
                ELSE acc)

RECURSIVE PushSubMeshes(_, _, _)
\* The loop of lines 37-45, from submesh i on, appending to acc.
PushSubMeshes(md, i, acc) ==
    IF i >= getNumSubmeshes(md) THEN acc
    ELSE LET numIndices == getNumIndices(md, i)
         IN PushSubMeshes(md, i + 1,
                IF numIndices > 0
                THEN Append(acc, [indexOffset |-> getIndexBufferOffset(md, i),
                                  indexCount |-> numIndices,
                                  drawOp |-> getDrawOp(md, i)])
                ELSE acc)

RebuildSubMeshes_NoClear(old, md) == PushSubMeshes(md, 0, old)

\* mSubMeshes.clear() and the loop that refills it.
RebuildSubMeshes(old, md) == PushSubMeshes(md, 0, <<>>)

\* The new IndexData: a buffer of the data's index type and count, locked,
\* filled with the data's index bytes in one copy, unlocked.
WriteIndexData(md) ==
    LET indexCount == getNumIndicesTotal(md)
        created == createIndexBuffer(getIndexType(md), indexCount)
        locked == lock(created)
        copied == [locked EXCEPT !.data =
                      Memcpy(locked.data, 0, md.data, 0, getIndexBufferSize(md))]
    IN [indexCount |-> indexCount, indexBuffer |-> unlock(copied)]

\* The new VertexData: the declaration, and for every stream the data has
\* a vertex buffer filled with that stream's bytes.
WriteVertexData(md) ==
    LET decl == createDeclaration(md)
        vertexCount == getNumVertices(md)
        streams == {s \in 0..getMaxStreamIdx(md) : hasStream(md, s)}
        filled(s) ==
            LET created == createVertexBuffer(getVertexSize(decl, s), vertexCount)
                locked == lock(created)
                copied == [locked EXCEPT !.data =
                              Memcpy(locked.data, 0, md.data,
                                     getStreamOffset(md, s), getStreamSize(md, s))]
            IN unlock(copied)
    IN [vertexCount |-> vertexCount, vertexDeclaration |-> decl,
        buffers |-> [s \in streams |-> filled(s)]]

\* The record kept of a call: the operation, the calling thread, the
\* container type or the raw index argument where the operation has one,
\* and for a write whether the container is the one last written and
\* whether the mesh held, before the call, more than the container has.
Call(op, t, typeId, index) ==
    [op |-> op, thread |-> t, typeId |-> typeId, index |-> index,
     repeat |-> FALSE, shrinks |-> FALSE]

\* The mesh holds a vertex stream that data does not have, and more
\* submeshes than data has.
HoldsMoreThan(mesh, data) ==
    /\ data.typeId = "TID_MeshData"
    /\ mesh.mVertexData # Null
    /\ \E s \in DOMAIN mesh.mVertexData.buffers : ~hasStream(data, s)
    /\ Len(mesh.mSubMeshes) > getNumSubmeshes(data)

\* The mesh as a record, for the operators that compute a call's outcome.
MeshState == [mSubMeshes |-> mSubMeshes, mIndexData |-> mIndexData,
              mVertexData |-> mVertexData]

WriteOutcome_NoThreadCheck(mesh, t, data) ==
    IF data.typeId # "TID_MeshData"
    THEN [mesh |-> mesh, result |-> "InvalidParameters"]
    ELSE [mesh |-> [mSubMeshes |-> RebuildSubMeshes(mesh.mSubMeshes, data),
                    mIndexData |-> WriteIndexData(data),
                    mVertexData |-> WriteVertexData(data)],
          result |-> "ok"]

WriteOutcome_ClearBeforeTypeCheck(mesh, t, data) ==
    IF ~IsCoreThread(t)
    THEN [mesh |-> mesh, result |-> "ThreadViolation"]
    ELSE IF data.typeId # "TID_MeshData"
    THEN [mesh |-> [mesh EXCEPT !.mSubMeshes = <<>>],
          result |-> "InvalidParameters"]
    ELSE [mesh |-> [mSubMeshes |-> RebuildSubMeshes(mesh.mSubMeshes, data),
                    mIndexData |-> WriteIndexData(data),
                    mVertexData |-> WriteVertexData(data)],
          result |-> "ok"]

WriteOutcome_KeepOldStreams(mesh, t, data) ==
    IF ~IsCoreThread(t)
    THEN [mesh |-> mesh, result |-> "ThreadViolation"]
    ELSE IF data.typeId # "TID_MeshData"
    THEN [mesh |-> mesh, result |-> "InvalidParameters"]
    ELSE [mesh |-> [mSubMeshes |-> RebuildSubMeshes(mesh.mSubMeshes, data),
                    mIndexData |-> WriteIndexData(data),
                    mVertexData |->
                        LET old == mesh.mVertexData
                            new == WriteVertexData(data)
                        IN IF old = Null THEN new
                           ELSE [new EXCEPT !.buffers =
                                    [s \in DOMAIN old.buffers
                                              \cup DOMAIN new.buffers |->
                                        IF s \in DOMAIN new.buffers
                                        THEN new.buffers[s]
                                        ELSE old.buffers[s]]]],
          result |-> "ok"]

\* writeSubresource called by thread t with container data on mesh.
WriteOutcome(mesh, t, data) ==
    IF ~IsCoreThread(t)
    THEN [mesh |-> mesh, result |-> "ThreadViolation"]
    ELSE IF data.typeId # "TID_MeshData"
    THEN [mesh |-> mesh, result |-> "InvalidParameters"]
    ELSE [mesh |-> [mSubMeshes |-> RebuildSubMeshes(mesh.mSubMeshes, data),
                    mIndexData |-> WriteIndexData(data),
                    mVertexData |-> WriteVertexData(data)],
          result |-> "ok"]

\* The resource is initialized before commands on it run, and the caller
\* holds no readback container while it uploads.
writeSubresource(t, data) ==
    /\ lifecycle = "initialized"
    /\ buffer = Null
    /\ LET out == WriteOutcome(MeshState, t, data)
       IN /\ mSubMeshes' = out.mesh.mSubMeshes
          /\ mIndexData' = out.mesh.mIndexData
          /\ mVertexData' = out.mesh.mVertexData
          /\ result' = out.result
          /\ written' = IF out.result = "ok" THEN data ELSE written
    /\ lastCall' = [Call("writeSubresource", t, data.typeId, 0)
                        EXCEPT !.repeat = (data = written),
                               !.shrinks = HoldsMoreThan(MeshState, data)]
    /\ ret' = Null
    /\ UNCHANGED <<lifecycle, buffer, paramVars, pipelineVars>>

(***************************************************************************)
(* Mesh::allocateSubresourceBuffer                                         *)
(***************************************************************************)
\* The k-th smallest (k from 0) element of a set of numbers.
NthKey(S, k) == CHOOSE x \in S : Cardinality({y \in S : y < x}) = k

RECURSIVE AllocElems(_, _, _)
\* Lines 170-190: for the k-th vertex buffer, every element of the
\* declaration is added to stream k.
AllocElems(decl, numBuffers, k) ==
    IF k >= numBuffers THEN <<>>
    ELSE [j \in 1..Len(decl) |->
             [type |-> decl[j].type, semantic |-> decl[j].semantic,
              semanticIdx |-> decl[j].semanticIdx, streamIdx |-> k]]
         \o AllocElems(decl, numBuffers, k + 1)

\* The container built for a mesh whose vertex data is present.
allocateSubresourceBuffer(mesh) ==
    LET indexType == IF mesh.mIndexData # Null
                     THEN mesh.mIndexData.indexBuffer.type ELSE "IT_32BIT"
        subMeshes == IF mesh.mIndexData # Null
                     THEN [i \in 1..Len(mesh.mSubMeshes) |->
                              [numIndices |-> mesh.mSubMeshes[i].indexCount,
                               drawOp |-> "DOT_TRIANGLE_LIST"]]
                     ELSE <<>>
        elems == AllocElems(mesh.mVertexData.vertexDeclaration,
                            Cardinality(DOMAIN mesh.mVertexData.buffers), 0)
    IN NewMeshData(mesh.mVertexData.vertexCount, indexType, subMeshes, elems)

\* With no vertex data, line 157 reads the vertex count through a null
\* pointer: the call may crash or build a container for any count.
AllocateSubresourceBuffer ==
    /\ lifecycle # "destroyed"
    /\ buffer = Null
    /\ IF mVertexData # Null
       THEN /\ buffer' = allocateSubresourceBuffer(MeshState)
            /\ result' = "ok"
       ELSE /\ result' = "undefined"
            /\ \E vc \in 0..MaxVertices :
                  buffer' \in {Null, NewMeshData(vc, "IT_32BIT", <<>>, <<>>)}
    /\ lastCall' = Call("allocateSubresourceBuffer", "sim", "", 0)
    /\ ret' = Null
    /\ UNCHANGED <<mSubMeshes, mIndexData, mVertexData, lifecycle, written,
                   paramVars, pipelineVars>>

\* The caller drops its container.
ReleaseBuffer ==
    /\ buffer # Null
    /\ buffer' = Null
    /\ lastCall' = Call("releaseBuffer", "sim", "", 0)
    /\ result' = "ok"
    /\ ret' = Null
    /\ UNCHANGED <<mSubMeshes, mIndexData, mVertexData, lifecycle, written,
                   paramVars, pipelineVars>>

(***************************************************************************)
(* Mesh::readSubresource                                                   *)
(***************************************************************************)
getIndices16(md, i) == getIndexBufferOffset(md, i) * 2
getIndices32(md, i) == getIndexBufferOffset(md, i) * 4

\* Where readSubresource writes the indices of submesh i in dest.
ReadIndexDest(mesh, dest, i) ==
    IF mesh.mIndexData.indexBuffer.type = "IT_16BIT"
    THEN getIndices16(dest, i) ELSE getIndices32(dest, i)

RECURSIVE ReadIndices(_, _, _)
\* Lines 115-125 from submesh i on: the data block of dest after the copies.
ReadIndices(mesh, dest, i) ==
    IF i >= Len(mesh.mSubMeshes) THEN dest.data
    ELSE LET idxBuf == lock(mesh.mIndexData.indexBuffer)
             idxElemSize == IndexSize(idxBuf.type)
             sm == mesh.mSubMeshes[i + 1]
             copied == Memcpy(dest.data, ReadIndexDest(mesh, dest, i),
                              idxBuf.data, sm.indexOffset * idxElemSize,
                              sm.indexCount * idxElemSize)
         IN ReadIndices(mesh, [dest EXCEPT !.data = copied], i + 1)

RECURSIVE ReadStreams(_, _, _)
\* Lines 135-147 from the streamIdx-th vertex buffer on.
ReadStreams(mesh, dest, streamIdx) ==
    IF streamIdx >= Cardinality(DOMAIN mesh.mVertexData.buffers) THEN dest.data
    ELSE LET vertexBuffer ==
                 lock(mesh.mVertexData.buffers[
                          NthKey(DOMAIN mesh.mVertexData.buffers, streamIdx)])
             bufferSize == vertexBuffer.vertexSize * vertexBuffer.numVertices
             copied == Memcpy(dest.data, getStreamOffset(dest, streamIdx),
                              vertexBuffer.data, 0, bufferSize)
         IN ReadStreams(mesh, [dest EXCEPT !.data = copied], streamIdx + 1)

\* The destination after lines 110-148.
ReadInto(mesh, dest) ==
    LET afterIdx == IF mesh.mIndexData # Null
                    THEN [dest EXCEPT !.data = ReadIndices(mesh, dest, 0)]
                    ELSE dest
    IN IF mesh.mVertexData # Null
       THEN [afterIdx EXCEPT !.data = ReadStreams(mesh, afterIdx, 0)]
       ELSE afterIdx

\* Every copy of ReadInto stays inside the source buffer and the destination.
ReadInBounds(mesh, dest) ==
    /\ mesh.mIndexData # Null =>
          /\ Len(mesh.mSubMeshes) <= getNumSubmeshes(dest)
          /\ \A i \in 0..(Len(mesh.mSubMeshes) - 1) :
                LET idxElemSize == IndexSize(mesh.mIndexData.indexBuffer.type)
                    sm == mesh.mSubMeshes[i + 1]
                IN /\ sm.indexCount <= getNumIndices(dest, i)
                   /\ IndexSize(dest.indexType) = idxElemSize
                   /\ MemcpyInBounds(dest.data, ReadIndexDest(mesh, dest, i),
                                     mesh.mIndexData.indexBuffer.data,
                                     sm.indexOffset * idxElemSize,
                                     sm.indexCount * idxElemSize)
    /\ mesh.mVertexData # Null =>
          \A k \in 0..(Cardinality(DOMAIN mesh.mVertexData.buffers) - 1) :
             LET vb == mesh.mVertexData.buffers[
                           NthKey(DOMAIN mesh.mVertexData.buffers, k)]
             IN /\ vb.vertexSize * vb.numVertices <= getStreamSize(dest, k)
                /\ MemcpyInBounds(dest.data, getStreamOffset(dest, k),
                                  vb.data, 0, vb.vertexSize * vb.numVertices)

ReadIndexData_NoUnlock(mesh) ==
    IF mesh.mIndexData = Null THEN Null
    ELSE [mesh.mIndexData EXCEPT !.indexBuffer = lock(@)]

\* Lines 110-128: the index data after the call, its buffer locked at line
\* 112 and unlocked at line 127.
ReadIndexData(mesh) ==
    IF mesh.mIndexData = Null THEN Null
    ELSE [mesh.mIndexData EXCEPT !.indexBuffer = unlock(lock(@))]

\* Lines 130-148: the vertex data after the call, each of its buffers
\* locked at line 139 and unlocked at line 144.
ReadVertexData(mesh) ==
    IF mesh.mVertexData = Null THEN Null
    ELSE [mesh.mVertexData EXCEPT !.buffers =
             [s \in DOMAIN mesh.mVertexData.buffers |->
                 unlock(lock(mesh.mVertexData.buffers[s]))]]

\* readSubresource called by thread t with destination data.
ReadOutcome(mesh, t, data) ==
    IF ~IsCoreThread(t)
    THEN [mesh |-> mesh, data |-> data, result |-> "ThreadViolation"]
    ELSE IF data.typeId # "TID_MeshData"
    THEN [mesh |-> mesh, data |-> data, result |-> "InvalidParameters"]
    ELSE [mesh |-> [mSubMeshes |-> mesh.mSubMeshes,
                    mIndexData |-> ReadIndexData(mesh),
                    mVertexData |-> ReadVertexData(mesh)],
          data |-> ReadInto(mesh, data), result |-> "ok"]

\* The destination is the caller's allocated container, which has to fit
\* the mesh, or a container of another type.  The buffers are locked and
\* unlocked inside the call.
readSubresource(t, data) ==
    /\ lifecycle = "initialized"
    /\ data.typeId = "TID_MeshData" =>
          (data = buffer /\ ReadInBounds(MeshState, data))
    /\ LET out == ReadOutcome(MeshState, t, data)
       IN /\ mSubMeshes' = out.mesh.mSubMeshes
          /\ mIndexData' = out.mesh.mIndexData
          /\ mVertexData' = out.mesh.mVertexData
          /\ result' = out.result
          /\ buffer' = IF data.typeId = "TID_MeshData" THEN out.data ELSE buffer
    /\ lastCall' = Call("readSubresource", t, data.typeId, 0)
    /\ ret' = Null
    /\ UNCHANGED <<lifecycle, written, paramVars, pipelineVars>>

(***************************************************************************)
(* Mesh::getSubMeshData                                                    *)
(***************************************************************************)
SubMeshIdxInvalid_OffByOne(subMeshIdx, size) ==
    U32Less(subMeshIdx, ToUINT32(0)) \/ U32Less(ToUINT32(size), subMeshIdx)

\* Line 199, on UINT32 values.
SubMeshIdxInvalid(subMeshIdx, size) ==
    U32Less(subMeshIdx, ToUINT32(0)) \/ ~U32Less(subMeshIdx, ToUINT32(size))

\* The raw argument is converted to UINT32 at the call.
getSubMeshData(index) ==
    /\ lifecycle # "destroyed"
    /\ IF SubMeshIdxInvalid(ToUINT32(index), Len(mSubMeshes))
       THEN /\ result' = "InvalidParameters"
            /\ ret' = Null
       ELSE /\ result' = "ok"
            /\ ret' = [useIndexes |-> TRUE,
                       hasIndexData |-> mIndexData # Null,
                       hasVertexData |-> mVertexData # Null,
                       operationType |->
                           IF index + 1 \in DOMAIN mSubMeshes
                           THEN mSubMeshes[index + 1].drawOp
                           ELSE "indeterminate"]
    /\ lastCall' = Call("getSubMeshData", "core", "", index)
    /\ UNCHANGED <<meshVars, paramVars, pipelineVars>>

(***************************************************************************)
(* Mesh::initialize_internal, Mesh::destroy_internal                       *)
(***************************************************************************)
InitializeOutcome_NoDummyWrite(mesh, t) ==
    IF ~IsCoreThread(t)
    THEN [mesh |-> mesh, result |-> "ThreadViolation"]
    ELSE [mesh |-> mesh, result |-> "ok"]

\* Lines 230-237: the thread check, then the dummy mesh data is written.
InitializeOutcome(mesh, t) ==
    IF ~IsCoreThread(t)
    THEN [mesh |-> mesh, result |-> "ThreadViolation"]
    ELSE WriteOutcome(mesh, t, DummyMeshData)

initialize_internal(t) ==
    /\ lifecycle = "constructed"
    /\ LET out == InitializeOutcome(MeshState, t)
       IN /\ mSubMeshes' = out.mesh.mSubMeshes
          /\ mIndexData' = out.mesh.mIndexData
          /\ mVertexData' = out.mesh.mVertexData
          /\ result' = out.result
          /\ written' = IF out.result = "ok" THEN DummyMeshData ELSE written
          /\ lifecycle' = IF out.result = "ok" THEN "initialized" ELSE lifecycle
    /\ lastCall' = Call("initialize_internal", t, "", 0)
    /\ ret' = Null
    /\ UNCHANGED <<buffer, paramVars, pipelineVars>>

\* Lines 242-244.
DestroyOutcome(t) == IF ~IsCoreThread(t) THEN "ThreadViolation" ELSE "ok"

destroy_internal(t) ==
    /\ lifecycle = "initialized"
    /\ buffer = Null
    /\ result' = DestroyOutcome(t)
    /\ lifecycle' = IF DestroyOutcome(t) = "ok" THEN "destroyed" ELSE lifecycle
    /\ lastCall' = Call("destroy_internal", t, "", 0)
    /\ ret' = Null
    /\ UNCHANGED <<mSubMeshes, mIndexData, mVertexData, buffer, written,
                   paramVars, pipelineVars>>

(***************************************************************************)
(* GpuParams.  Two stores are created from one program: they share the     *)
(* descriptor set (GpuParamDesc&) and each owns its internal data.         *)
(***************************************************************************)
Stores == {1, 2}
ParamNames == <<"tint">>
AbsentName == "missing"

\* GpuParamDataType tags a descriptor may hold.
DataTypes == <<"GPDT_FLOAT1", "GPDT_FLOAT2", "GPDT_FLOAT3", "GPDT_FLOAT4",
               "GPDT_MATRIX_3X3", "GPDT_MATRIX_4X4", "GPDT_INT1">>

\* The T of getParam<T>; "int" stands for every T without a specialization.
TemplateTypes == {"float", "Vector2", "Vector3", "Vector4", "Matrix3",
                  "Matrix4", "int"}

\* Descriptor set k: the i-th name holds the (k+i-1)-th type tag, at its own
\* offset of the data buffer.
Descriptor(k) ==
    [n \in {ParamNames[i] : i \in 1..Len(ParamNames)} |->
        LET i == CHOOSE j \in 1..Len(ParamNames) : ParamNames[j] = n
        IN [type |-> DataTypes[((k + i - 2) % Len(DataTypes)) + 1],
            cpuMemOffset |-> i - 1]]

Descriptors == {Descriptor(k) : k \in 1..Len(DataTypes)}

\* GpuParams(paramDesc, transposeMatrices): the data buffer starts zeroed.
NewInternalData ==
    [mData |-> [o \in 0..(Len(ParamNames) - 1) |-> 0], mIsDestroyed |-> FALSE]

HasSpecialization(T) ==
    T \in {"float", "Vector2", "Vector3", "Vector4", "Matrix3", "Matrix4"}

SpecializationTag_Vec4AsFloat3(T) ==
    CASE T = "float" -> "GPDT_FLOAT1"
      [] T = "Vector2" -> "GPDT_FLOAT2"
      [] T = "Vector3" -> "GPDT_FLOAT3"
      [] T = "Vector4" -> "GPDT_FLOAT3"
      [] T = "Matrix3" -> "GPDT_MATRIX_3X3"
      [] T = "Matrix4" -> "GPDT_MATRIX_4X4"

\* The tag each specialization compares the stored type with.
SpecializationTag(T) ==
    CASE T = "float" -> "GPDT_FLOAT1"
      [] T = "Vector2" -> "GPDT_FLOAT2"
      [] T = "Vector3" -> "GPDT_FLOAT3"
      [] T = "Vector4" -> "GPDT_FLOAT4"
      [] T = "Matrix3" -> "GPDT_MATRIX_3X3"
      [] T = "Matrix4" -> "GPDT_MATRIX_4X4"

\* The condition under which getParam<T> raises InvalidParametersException.
GetParamRejects(params, T, name) ==
    IF ~HasSpecialization(T) THEN TRUE
    ELSE IF name \notin DOMAIN params THEN TRUE
    ELSE params[name].type # SpecializationTag(T)

NewHandle_FirstStoreData(store, name) ==
    [paramDesc |-> name, internalData |-> 1]

\* GpuParamFloat(&iterFind->second, mInternalData): the handle keeps a
\* pointer to the found descriptor and shares the store's internal data.
NewHandle(store, name) ==
    [paramDesc |-> name, internalData |-> store]

\* getParam<T>(name, output) on a store; output is the caller's slot, kept
\* with the store and name it was asked for.
getParam(store, T, name, slot) ==
    /\ IF GetParamRejects(mParamDesc, T, name)
       THEN /\ result' = "InvalidParameters"
            /\ handles' = handles
       ELSE /\ result' = "ok"
            /\ handles' = [handles EXCEPT ![slot] =
                              [handle |-> NewHandle(store, name),
                               store |-> store, name |-> name]]
    /\ lastCall' = [op |-> "getParam", T |-> T, name |-> name]
    /\ ret' = Null
    /\ UNCHANGED <<mParamDesc, mInternalData, lastSet, meshVars, pipelineVars>>

\* What a handle reads: the internal data it shares, at its descriptor's
\* offset.
HandleValue(h) ==
    mInternalData[h.internalData].mData[mParamDesc[h.paramDesc].cpuMemOffset]

\* TGpuDataParam<T>::set through the handle in a slot.
HandleSet(slot, value) ==
    /\ handles[slot] # Null
    /\ LET h == handles[slot].handle
           offset == mParamDesc[h.paramDesc].cpuMemOffset
       IN mInternalData' =
              [mInternalData EXCEPT ![h.internalData].mData[offset] = value]
    /\ lastSet' = [lastSet EXCEPT
                      ![handles[slot].store][handles[slot].name] = value]
    /\ lastCall' = [op |-> "set", slot |-> slot]
    /\ result' = "ok"
    /\ ret' = Null
    /\ UNCHANGED <<mParamDesc, handles, meshVars, pipelineVars>>

\* TGpuDataParam<T>::get through the handle in a slot.
HandleGet(slot) ==
    /\ handles[slot] # Null
    /\ ret' = [value |-> HandleValue(handles[slot].handle)]
    /\ lastCall' = [op |-> "get", slot |-> slot]
    /\ result' = "ok"
    /\ UNCHANGED <<paramVars, meshVars, pipelineVars>>

(***************************************************************************)
(* Pipeline state.  A reference is 0 (nullptr) or the number of an object. *)
(***************************************************************************)
ProgramRefs == 0..MaxPrograms
StateRefs == 0..MaxStateObjects

\* PIPELINE_STATE_DESC
StateDescs ==
    [blendState : StateRefs, rasterizerState : StateRefs,
     depthStencilState : StateRefs,
     vertexProgram : ProgramRefs, fragmentProgram : ProgramRefs,
     geometryProgram : ProgramRefs, hullProgram : ProgramRefs,
     domainProgram : ProgramRefs]

\* The parameter info derived at construction from the programs.
GraphicsParamInfo(desc) ==
    [vertex |-> desc.vertexProgram, fragment |-> desc.fragmentProgram,
     geometry |-> desc.geometryProgram, hull |-> desc.hullProgram,
     domain |-> desc.domainProgram]

\* TGraphicsPipelineState(desc)
NewGraphicsPipelineState(desc) ==
    [kind |-> "graphics", mData |-> desc, mParamInfo |-> GraphicsParamInfo(desc)]

\* TComputePipelineState(program)
NewComputePipelineState(program) ==
    [kind |-> "compute", mProgram |-> program,
     mParamInfo |-> [compute |-> program]]

hasFragmentProgram_ChecksVertex(p) == p.mData.vertexProgram # 0

hasVertexProgram(p) == p.mData.vertexProgram # 0
hasFragmentProgram(p) == p.mData.fragmentProgram # 0
hasGeometryProgram(p) == p.mData.geometryProgram # 0
hasHullProgram(p) == p.mData.hullProgram # 0
hasDomainProgram(p) == p.mData.domainProgram # 0

getBlendState(p) == p.mData.blendState
getRasterizerState(p) == p.mData.rasterizerState
getDepthStencilState(p) == p.mData.depthStencilState

getHullProgram_ReturnsDomain(p) == p.mData.domainProgram

getVertexProgram(p) == p.mData.vertexProgram
getFragmentProgram(p) == p.mData.fragmentProgram
getGeometryProgram(p) == p.mData.geometryProgram
getHullProgram(p) == p.mData.hullProgram
getDomainProgram(p) == p.mData.domainProgram

\* TGraphicsPipelineState::getParamInfo and TComputePipelineState::getParamInfo
getParamInfo(p) == p.mParamInfo

\* TComputePipelineState::getProgram
getProgram(p) == p.mProgram

GraphicsAccessors ==
    {"hasVertexProgram", "hasFragmentProgram", "hasGeometryProgram",
     "hasHullProgram", "hasDomainProgram", "getBlendState",
     "getRasterizerState", "getDepthStencilState", "getVertexProgram",
     "getFragmentProgram", "getGeometryProgram", "getHullProgram",
     "getDomainProgram", "getParamInfo"}
ComputeAccessors == {"getProgram", "getParamInfo"}

\* What accessor a returns on pipeline state p.
AccessorReturn(a, p) ==
    CASE a = "hasVertexProgram" -> [bool |-> hasVertexProgram(p)]
      [] a = "hasFragmentProgram" -> [bool |-> hasFragmentProgram(p)]
      [] a = "hasGeometryProgram" -> [bool |-> hasGeometryProgram(p)]
      [] a = "hasHullProgram" -> [bool |-> hasHullProgram(p)]
      [] a = "hasDomainProgram" -> [bool |-> hasDomainProgram(p)]
      [] a = "getBlendState" -> [ref |-> getBlendState(p)]
      [] a = "getRasterizerState" -> [ref |-> getRasterizerState(p)]
      [] a = "getDepthStencilState" -> [ref |-> getDepthStencilState(p)]
      [] a = "getVertexProgram" -> [ref |-> getVertexProgram(p)]
      [] a = "getFragmentProgram" -> [ref |-> getFragmentProgram(p)]
      [] a = "getGeometryProgram" -> [ref |-> getGeometryProgram(p)]
      [] a = "getHullProgram" -> [ref |-> getHullProgram(p)]
      [] a = "getDomainProgram" -> [ref |-> getDomainProgram(p)]
      [] a = "getParamInfo" -> [info |-> getParamInfo(p)]
      [] a = "getProgram" -> [ref |-> getProgram(p)]

\* GraphicsPipelineState::create(desc)
CreateGraphicsPipelineState(desc) ==
    /\ pipeline = Null
    /\ pipeline' = NewGraphicsPipelineState(desc)
    /\ ctorArg' = [desc |-> desc]
    /\ lastCall' = [op |-> "create", kind |-> "graphics"]
    /\ result' = "ok"
    /\ ret' = Null
    /\ UNCHANGED <<meshVars, paramVars>>

\* ComputePipelineState::create(program)
CreateComputePipelineState(program) ==
    /\ pipeline = Null
    /\ pipeline' = NewComputePipelineState(program)
    /\ ctorArg' = [program |-> program]
    /\ lastCall' = [op |-> "create", kind |-> "compute"]
    /\ result' = "ok"
    /\ ret' = Null
    /\ UNCHANGED <<meshVars, paramVars>>

\* The accessors are const member functions: the object is left as it is.
CallAccessor(a) ==
    /\ pipeline # Null
    /\ a \in (IF pipeline.kind = "graphics" THEN GraphicsAccessors
              ELSE ComputeAccessors)
    /\ ret' = AccessorReturn(a, pipeline)
    /\ lastCall' = [op |-> "accessor", accessor |-> a]
    /\ result' = "ok"
    /\ UNCHANGED <<pipeline, ctorArg, meshVars, paramVars>>

(***************************************************************************)
(* Specifications.                                                         *)
(***************************************************************************)
\* Mesh(): both data blocks null, no submeshes.
InitMesh ==
    /\ mSubMeshes = <<>>
    /\ mIndexData = Null
    /\ mVertexData = Null
    /\ lifecycle = "constructed"
    /\ buffer = Null
    /\ written = Null

InitCall ==
    /\ lastCall = [op |-> "none"]
    /\ result = "ok"
    /\ ret = Null

InitParams(D) ==
    /\ mParamDesc \in D
    /\ mInternalData = [s \in Stores |-> NewInternalData]
    /\ handles = [slot \in 1..MaxHandles |-> Null]
    /\ lastSet = [s \in Stores |->
                     [n \in {ParamNames[i] : i \in 1..Len(ParamNames)} |-> 0]]

InitPipeline ==
    /\ pipeline = Null
    /\ ctorArg = Null

\* The mesh and its callers.
Init == InitMesh /\ InitCall /\ InitParams({Descriptor(1)}) /\ InitPipeline

\* What a caller on thread t passes to writeSubresource.  The thread check
\* comes before the container is looked at, so off the core thread one
\* container of each type stands for all.
WriteInputs(t) ==
    IF IsCoreThread(t) THEN MeshDataInputs \cup {PixelDataInput}
    ELSE {DummyMeshData, PixelDataInput}

\* What the caller can pass to readSubresource.
ReadInputs == (IF buffer = Null THEN {} ELSE {buffer}) \cup {PixelDataInput}

SubMeshIdxInputs == (0 - 1)..(MaxSubMeshes + 1)

Next ==
    \/ \E t \in Threads : \E data \in WriteInputs(t) : writeSubresource(t, data)
    \/ \E t \in Threads, data \in ReadInputs : readSubresource(t, data)
    \/ AllocateSubresourceBuffer
    \/ ReleaseBuffer
    \/ \E index \in SubMeshIdxInputs : getSubMeshData(index)
    \/ \E t \in Threads : initialize_internal(t)
    \/ \E t \in Threads : destroy_internal(t)

Spec == Init /\ [][Next]_vars

\* The parameter stores and the handles taken from them.
InitGpuParams == InitMesh /\ InitCall /\ InitParams(Descriptors) /\ InitPipeline

NextGpuParams ==
    \/ \E store \in Stores, T \in TemplateTypes, slot \in 1..MaxHandles,
          name \in {ParamNames[i] : i \in 1..Len(ParamNames)} \cup {AbsentName} :
          getParam(store, T, name, slot)
    \/ \E slot \in 1..MaxHandles, value \in 0..MaxValue : HandleSet(slot, value)
    \/ \E slot \in 1..MaxHandles : HandleGet(slot)

SpecGpuParams == InitGpuParams /\ [][NextGpuParams]_vars

\* One pipeline state object, graphics or compute, and its accessors.
InitPipelineState ==
    InitMesh /\ InitCall /\ InitParams({Descriptor(1)}) /\ InitPipeline

NextPipelineState ==
    \/ \E desc \in StateDescs : CreateGraphicsPipelineState(desc)
    \/ \E program \in ProgramRefs : CreateComputePipelineState(program)
    \/ \E a \in GraphicsAccessors \cup ComputeAccessors : CallAccessor(a)

SpecPipelineState == InitPipelineState /\ [][NextPipelineState]_vars

(***************************************************************************)
(* Claims about the mesh (specification Spec).                             *)
(***************************************************************************)
\* The index bytes of a container, and the bytes of its stream s.
IndexBytes(md) == SubSeq(md.data, 1, getIndexBufferSize(md))
StreamBytes(md, s) ==
    SubSeq(md.data, getStreamOffset(md, s) + 1,
           getStreamOffset(md, s) + getStreamSize(md, s))

\* The streams a container has, in ascending order.
PopulatedStreams(md) == {s \in 0..getMaxStreamIdx(md) : hasStream(md, s)}

\* The container just read back holds what the container last written held:
\* the same index bytes, and in its k-th stream the bytes of the k-th
\* populated stream written.
ReadBackIdentical(src, dst) ==
    /\ IndexBytes(dst) = IndexBytes(src)
    /\ Cardinality(PopulatedStreams(dst)) = Cardinality(PopulatedStreams(src))
    /\ \A k \in 0..(Cardinality(PopulatedStreams(src)) - 1) :
          StreamBytes(dst, NthKey(PopulatedStreams(dst), k))
             = StreamBytes(src, NthKey(PopulatedStreams(src), k))

ReadBackDone ==
    /\ lastCall.op = "readSubresource"
    /\ result = "ok"
    /\ written # Null

\* C1: after writeSubresource(data) with a nonzero submesh count, then
\* allocateSubresourceBuffer, then readSubresource into the allocated
\* container, the container's index bytes and vertex stream bytes are
\* identical to those written, whatever streams are populated.
C1_RoundTrip ==
    (ReadBackDone /\ getNumSubmeshes(written) > 0)
        => ReadBackIdentical(written, buffer)

\* The source submeshes as {indexOffset, indexCount, drawOp}, in source
\* order, without those that have no indices.
NonEmptySourceSubMeshes(md) ==
    SelectSeq([i \in 1..Len(md.subMeshes) |->
                  [indexOffset |-> getIndexBufferOffset(md, i - 1),
                   indexCount |-> md.subMeshes[i].numIndices,
                   drawOp |-> md.subMeshes[i].drawOp]],
              LAMBDA e : e.indexCount > 0)

\* C2: after writeSubresource(data) the submesh list holds exactly one
\* entry per source submesh with a nonzero index count, in source order,
\* so its length is the number of source submeshes that have indices.
C2_SubMeshesRebuilt ==
    written # Null =>
        /\ mSubMeshes = NonEmptySourceSubMeshes(written)
        /\ Len(mSubMeshes) =
              Cardinality({i \in 1..Len(written.subMeshes) :
                              written.subMeshes[i].numIndices > 0})

\* A write of two submeshes of which the first is empty has completed.
C2_Witness ==
    /\ lastCall.op = "writeSubresource"
    /\ result = "ok"
    /\ Len(written.subMeshes) = 2
    /\ written.subMeshes[1].numIndices = 0
    /\ written.subMeshes[2].numIndices > 0
    /\ Len(mSubMeshes) = 1

\* C3: getSubMeshData(index) raises the invalid-parameter condition for
\* every index outside [0, submeshCount), also when there is no submesh,
\* and for every index inside the range returns that submesh's draw
\* operation.
C3_SubMeshIndexChecked ==
    lastCall.op = "getSubMeshData" =>
        IF 0 <= lastCall.index /\ lastCall.index < Len(mSubMeshes)
        THEN /\ result = "ok"
             /\ ret.operationType = mSubMeshes[lastCall.index + 1].drawOp
        ELSE result = "InvalidParameters"

\* The index one past the last submesh was rejected.
C3_Witness ==
    /\ lastCall.op = "getSubMeshData"
    /\ Len(mSubMeshes) > 0
    /\ lastCall.index = Len(mSubMeshes)
    /\ result = "InvalidParameters"

\* C4: writeSubresource or readSubresource called on the core thread with
\* a container that is not mesh data raises the type-mismatch condition
\* and leaves the submesh list, the index data and the vertex data as they
\* were.
C4_WrongTypeNoMutation ==
    [][(/\ lastCall'.op \in {"writeSubresource", "readSubresource"}
        /\ lastCall'.thread = "core"
        /\ lastCall'.typeId # "TID_MeshData")
       => (/\ result' = "InvalidParameters"
           /\ UNCHANGED <<mSubMeshes, mIndexData, mVertexData>>)]_vars

\* A write of a foreign container was rejected on a mesh that has submeshes.
C4_Witness ==
    /\ lastCall.op = "writeSubresource"
    /\ lastCall.thread = "core"
    /\ lastCall.typeId = "TID_PixelData"
    /\ result = "InvalidParameters"
    /\ Len(mSubMeshes) > 0

\* C5: writeSubresource, readSubresource, initialize_internal and
\* destroy_internal called from a thread other than the core thread raise
\* the thread-context violation and change nothing of the mesh.
C5_OffThreadRejected ==
    [][(/\ lastCall'.op \in {"writeSubresource", "readSubresource",
                             "initialize_internal", "destroy_internal"}
        /\ lastCall'.thread # "core")
       => (/\ result' = "ThreadViolation"
           /\ UNCHANGED <<mSubMeshes, mIndexData, mVertexData, lifecycle,
                          buffer>>)]_vars

\* A write of mesh data from the simulation thread was rejected.
C5_Witness ==
    /\ lastCall.op = "writeSubresource"
    /\ lastCall.thread = "sim"
    /\ lastCall.typeId = "TID_MeshData"
    /\ result = "ThreadViolation"

\* C6: a writeSubresource with the mesh data that was last written leaves
\* the submesh list, the index data and the vertex data as the first write
\* left them.
C6_WriteIdempotent ==
    [][(/\ lastCall'.op = "writeSubresource"
        /\ lastCall'.repeat
        /\ result' = "ok")
       => UNCHANGED <<mSubMeshes, mIndexData, mVertexData>>]_vars

\* The same mesh data, with two submeshes, was written a second time.
C6_Witness ==
    /\ lastCall.op = "writeSubresource"
    /\ lastCall.repeat
    /\ result = "ok"
    /\ Len(mSubMeshes) = 2

(***************************************************************************)
(* Claims about the parameter store (specification SpecGpuParams).         *)
(***************************************************************************)
\* The type tag that corresponds to each supported T.
MatchingTags ==
    {<<"float", "GPDT_FLOAT1">>, <<"Vector2", "GPDT_FLOAT2">>,
     <<"Vector3", "GPDT_FLOAT3">>, <<"Vector4", "GPDT_FLOAT4">>,
     <<"Matrix3", "GPDT_MATRIX_3X3">>, <<"Matrix4", "GPDT_MATRIX_4X4">>}

\* C7: getParam<T>(name, out) succeeds exactly when the descriptor set
\* holds a data parameter called name whose stored type is the tag that
\* corresponds to T, for T one of float, Vector2, Vector3, Vector4,
\* Matrix3, Matrix4; otherwise, and for every other T, it raises the
\* invalid-parameter condition.
C7_GetParamTypeChecked ==
    lastCall.op = "getParam" =>
        IF /\ lastCall.name \in DOMAIN mParamDesc
           /\ <<lastCall.T, mParamDesc[lastCall.name].type>> \in MatchingTags
        THEN result = "ok"
        ELSE result = "InvalidParameters"

\* A float4 parameter called "tint" was asked for as float and refused.
C7_Witness ==
    /\ lastCall.op = "getParam"
    /\ lastCall.T = "float"
    /\ lastCall.name = "tint"
    /\ mParamDesc["tint"].type = "GPDT_FLOAT4"
    /\ result = "InvalidParameters"

HeldSlots == {slot \in 1..MaxHandles : handles[slot] # Null}

\* C8: two handles obtained for the same name on the same store refer to
\* the same descriptor and the same internal data, and what any handle
\* reads is the value last written through a handle for its store and name.
C8_HandlesAlias ==
    /\ \A a \in HeldSlots, b \in HeldSlots :
          (handles[a].store = handles[b].store
              /\ handles[a].name = handles[b].name)
          => /\ handles[a].handle.paramDesc = handles[b].handle.paramDesc
             /\ handles[a].handle.internalData = handles[b].handle.internalData
             /\ HandleValue(handles[a].handle) = HandleValue(handles[b].handle)
    /\ \A a \in HeldSlots :
          HandleValue(handles[a].handle)
             = lastSet[handles[a].store][handles[a].name]
    /\ (lastCall.op = "get" /\ lastCall.slot \in HeldSlots) =>
          ret.value = lastSet[handles[lastCall.slot].store]
                             [handles[lastCall.slot].name]

\* Two handles for "tint" on the second store, and a nonzero value written
\* through one of them.
C8_Witness ==
    /\ lastCall.op = "set"
    /\ HeldSlots = 1..MaxHandles
    /\ \A a \in HeldSlots : handles[a].store = 2 /\ handles[a].name = "tint"
    /\ lastSet[2]["tint"] > 0
    /\ lastSet[1]["tint"] = 0

(***************************************************************************)
(* Claims about the pipeline state (specification SpecPipelineState).      *)
(***************************************************************************)
IsGraphics == pipeline # Null /\ pipeline.kind = "graphics"
Returned(a) == lastCall.op = "accessor" /\ lastCall.accessor = a

\* C9: construction succeeds for every descriptor, also one with no
\* program, and for each of the five stages hasXProgram() is true exactly
\* when the descriptor supplied a program for that stage.
C9_HasProgramMatchesDesc ==
    /\ (lastCall.op = "create" /\ lastCall.kind = "graphics")
          => (result = "ok" /\ IsGraphics)
    /\ IsGraphics =>
          /\ hasVertexProgram(pipeline) = (ctorArg.desc.vertexProgram # 0)
          /\ hasFragmentProgram(pipeline) = (ctorArg.desc.fragmentProgram # 0)
          /\ hasGeometryProgram(pipeline) = (ctorArg.desc.geometryProgram # 0)
          /\ hasHullProgram(pipeline) = (ctorArg.desc.hullProgram # 0)
          /\ hasDomainProgram(pipeline) = (ctorArg.desc.domainProgram # 0)
    /\ (IsGraphics /\ Returned("hasVertexProgram"))
          => ret.bool = (ctorArg.desc.vertexProgram # 0)
    /\ (IsGraphics /\ Returned("hasFragmentProgram"))
          => ret.bool = (ctorArg.desc.fragmentProgram # 0)
    /\ (IsGraphics /\ Returned("hasGeometryProgram"))
          => ret.bool = (ctorArg.desc.geometryProgram # 0)
    /\ (IsGraphics /\ Returned("hasHullProgram"))
          => ret.bool = (ctorArg.desc.hullProgram # 0)
    /\ (IsGraphics /\ Returned("hasDomainProgram"))
          => ret.bool = (ctorArg.desc.domainProgram # 0)

\* A pipeline state built with no program at all answered a presence check.
C9_Witness ==
    /\ IsGraphics
    /\ ctorArg.desc.vertexProgram = 0
    /\ ctorArg.desc.fragmentProgram = 0
    /\ ctorArg.desc.geometryProgram = 0
    /\ ctorArg.desc.hullProgram = 0
    /\ ctorArg.desc.domainProgram = 0
    /\ Returned("hasFragmentProgram")
    /\ ret.bool = FALSE

\* What getter a has to return for the constructor argument arg; the
\* parameter info is the one the object held before the call.
GivenAtConstruction(a, arg, before) ==
    CASE a = "getBlendState" -> [ref |-> arg.desc.blendState]
      [] a = "getRasterizerState" -> [ref |-> arg.desc.rasterizerState]
      [] a = "getDepthStencilState" -> [ref |-> arg.desc.depthStencilState]
      [] a = "getVertexProgram" -> [ref |-> arg.desc.vertexProgram]
      [] a = "getFragmentProgram" -> [ref |-> arg.desc.fragmentProgram]
      [] a = "getGeometryProgram" -> [ref |-> arg.desc.geometryProgram]
      [] a = "getHullProgram" -> [ref |-> arg.desc.hullProgram]
      [] a = "getDomainProgram" -> [ref |-> arg.desc.domainProgram]
      [] a = "getProgram" -> [ref |-> arg.program]
      [] a = "getParamInfo" -> [info |-> before.mParamInfo]

Getters ==
    {"getBlendState", "getRasterizerState", "getDepthStencilState",
     "getVertexProgram", "getFragmentProgram", "getGeometryProgram",
     "getHullProgram", "getDomainProgram", "getProgram", "getParamInfo"}

\* C10: once a graphics or compute pipeline state is constructed, no
\* public operation changes its program, fixed-function state or
\* parameter-info references, and every getter returns the value given at
\* construction.
C10_PipelineImmutable ==
    [][pipeline # Null =>
          /\ pipeline' = pipeline
          /\ (lastCall'.op = "accessor" /\ lastCall'.accessor \in Getters)
                => ret' = GivenAtConstruction(lastCall'.accessor, ctorArg,
                                              pipeline)]_vars

\* The hull program was read from a pipeline state whose hull and domain
\* programs differ.
C10_Witness ==
    /\ IsGraphics
    /\ Returned("getHullProgram")
    /\ ctorArg.desc.hullProgram # ctorArg.desc.domainProgram
    /\ ret.ref = ctorArg.desc.hullProgram

(***************************************************************************)
(* Further claims about the mesh (specification Spec).                     *)
(***************************************************************************)
\* C11: every lock that writeSubresource or readSubresource takes is
\* released before the call ends, on every exit path: after any sequence of
\* calls, completed or rejected, neither the index buffer nor any vertex
\* buffer of the mesh is locked, and none was locked while already locked.
C11_LocksReleased ==
    /\ mIndexData # Null =>
          /\ ~mIndexData.indexBuffer.locked
          /\ ~mIndexData.indexBuffer.relocked
    /\ mVertexData # Null =>
          \A s \in DOMAIN mVertexData.buffers :
             /\ ~mVertexData.buffers[s].locked
             /\ ~mVertexData.buffers[s].relocked

\* A read has completed on a mesh that has submeshes and two vertex buffers.
C11_Witness ==
    /\ lastCall.op = "readSubresource"
    /\ result = "ok"
    /\ Len(mSubMeshes) > 0
    /\ mVertexData # Null
    /\ Cardinality(DOMAIN mVertexData.buffers) = 2

\* The vertex elements of stream s in a list of elements, in order, as
\* {type, semantic, semanticIdx}.
StreamLayout(elems, s) ==
    LET sel == SelectSeq(elems, LAMBDA e : e.streamIdx = s)
    IN [j \in 1..Len(sel) |->
           [type |-> sel[j].type, semantic |-> sel[j].semantic,
            semanticIdx |-> sel[j].semanticIdx]]

AllocateDone ==
    /\ lastCall.op = "allocateSubresourceBuffer"
    /\ result = "ok"

\* The vertex count, index type and submesh layout of the container match
\* the mesh.
AllocIndexShape ==
    /\ buffer.numVertices = mVertexData.vertexCount
    /\ buffer.indexType = (IF mIndexData # Null
                           THEN mIndexData.indexBuffer.type ELSE "IT_32BIT")
    /\ Len(buffer.subMeshes) = Len(mSubMeshes)
    /\ \A i \in 1..Len(mSubMeshes) :
          buffer.subMeshes[i].numIndices = mSubMeshes[i].indexCount

\* The container has one stream per vertex buffer of the mesh, and its k-th
\* stream has the elements the declaration gives the k-th populated stream.
AllocStreamShape ==
    /\ Cardinality(PopulatedStreams(buffer))
          = Cardinality(DOMAIN mVertexData.buffers)
    /\ \A k \in 0..(Cardinality(DOMAIN mVertexData.buffers) - 1) :
          StreamLayout(buffer.vertElems, NthKey(PopulatedStreams(buffer), k))
             = StreamLayout(mVertexData.vertexDeclaration,
                            NthKey(DOMAIN mVertexData.buffers, k))

\* C12: the container allocateSubresourceBuffer returns has the vertex
\* count of the mesh, the index type of its index buffer, one submesh per
\* entry of the submesh list with that entry's index count, and for each
\* populated vertex stream exactly the elements that belong to that stream.
C12_AllocShape == AllocateDone => (AllocIndexShape /\ AllocStreamShape)

\* The mesh holds what the container md describes and nothing else: its
\* submeshes that have indices, its index bytes in a buffer of its index
\* type, its vertex elements, and one vertex buffer per stream it has, with
\* that stream's bytes.
MeshHoldsExactly(md) ==
    /\ mSubMeshes = NonEmptySourceSubMeshes(md)
    /\ mIndexData # Null
    /\ mIndexData.indexCount = getNumIndicesTotal(md)
    /\ mIndexData.indexBuffer.type = md.indexType
    /\ mIndexData.indexBuffer.numIndexes = getNumIndicesTotal(md)
    /\ mIndexData.indexBuffer.data = IndexBytes(md)
    /\ mVertexData # Null
    /\ mVertexData.vertexCount = md.numVertices
    /\ Len(mVertexData.vertexDeclaration) = Len(md.vertElems)
    /\ \A s \in 0..(MaxStreamIdx + 1) :
          StreamLayout(mVertexData.vertexDeclaration, s)
             = StreamLayout(md.vertElems, s)
    /\ DOMAIN mVertexData.buffers = PopulatedStreams(md)
    /\ \A s \in DOMAIN mVertexData.buffers :
          /\ mVertexData.buffers[s].numVertices = md.numVertices
          /\ mVertexData.buffers[s].vertexSize
                = StreamVertexSize(md.vertElems, s)
          /\ mVertexData.buffers[s].data = StreamBytes(md, s)

\* C13: writeSubresource replaces the whole resource: whatever was written
\* before, after writeSubresource(B) the submesh list, the index data and
\* the vertex data, with the set of populated streams, are those of B
\* alone.
C13_FullReplace == written # Null => MeshHoldsExactly(written)

\* A write has completed on a mesh that held stream 0 and more submeshes
\* than the container written, which has no stream 0.
C13_Witness ==
    /\ lastCall.op = "writeSubresource"
    /\ result = "ok"
    /\ lastCall.shrinks
    /\ ~hasStream(written, 0)
    /\ MeshHoldsExactly(written)

\* C14: in every mesh state reached through completed writes, every entry
\* of the submesh list has indexCount > 0 and indexOffset + indexCount at
\* most the index count of the index data, so the copy readSubresource
\* makes for the entry reads inside the index buffer.
C14_SubMeshesInRange ==
    \A i \in 1..Len(mSubMeshes) :
       /\ mSubMeshes[i].indexCount > 0
       /\ mIndexData # Null
       /\ mSubMeshes[i].indexOffset + mSubMeshes[i].indexCount
             <= mIndexData.indexCount
       /\ (mSubMeshes[i].indexOffset + mSubMeshes[i].indexCount)
             * IndexSize(mIndexData.indexBuffer.type)
             <= Len(mIndexData.indexBuffer.data)

\* A write has left two entries, the second of which starts after the
\* first and ends with the index buffer.
C14_Witness ==
    /\ lastCall.op = "writeSubresource"
    /\ result = "ok"
    /\ Len(mSubMeshes) = 2
    /\ mSubMeshes[2].indexOffset > 0
    /\ mSubMeshes[2].indexOffset + mSubMeshes[2].indexCount
          = mIndexData.indexCount

\* C15: once initialize_internal has completed, and after any later write
\* or read, completed or rejected, the mesh holds both an index data block
\* and a vertex data block, so allocateSubresourceBuffer on an initialized
\* mesh never reads absent vertex data.
C15_DataPresentAfterInit ==
    /\ lifecycle = "initialized" =>
          (mIndexData # Null /\ mVertexData # Null)
    /\ (lifecycle = "initialized"
          /\ lastCall.op = "allocateSubresourceBuffer") => result = "ok"

\* allocateSubresourceBuffer has completed on an initialized mesh that was
\* written after its initialization.
C15_Witness ==
    /\ lifecycle = "initialized"
    /\ AllocateDone
    /\ written # DummyMeshData
    /\ mVertexData # Null
    /\ buffer # Null

=============================================================================
